---- MODULE Spec2Model ----
(***************************************************************************)
(* A model of the go-stack package: a generic LIFO stack with an optional  *)
(* capacity limit, guarded by one sync.RWMutex (stack.go, config.go,       *)
(* errors.go).  The element type T is instantiated at int.                  *)
(*                                                                         *)
(* Each goroutine calling a method is a thread whose position (pc) walks   *)
(* through the statements of the method: the call, the (R)Lock, the reads  *)
(* and writes of the body, and the deferred (R)Unlock.  hist is the log of *)
(* the results the methods have produced, in the order they were produced. *)
(***************************************************************************)
EXTENDS Integers, Sequences, FiniteSets

\* ---- bounds of the model ----
NumThreads == 2      \* goroutines sharing the stack
MaxOps     == 4      \* method calls issued in one behaviour
MaxVal     == 2      \* pushed values are 1..MaxVal
MaxCap     == 2      \* WithCapacity arguments range up to MaxCap
MaxOpts    == 2      \* options passed to New

\* ---- program constants ----
UnlimitedCapacity == -1
Zero == 0            \* "var zero T" for T = int

ErrNil       == "nil"
ErrOverflow  == "stack overflow"
ErrUnderflow == "stack underflow"

Threads == 1..NumThreads
Values  == 1..MaxVal
CapArgs == (UnlimitedCapacity - 1)..MaxCap

RECURSIVE SeqsUpTo(_, _)
SeqsUpTo(S, n) ==
    IF n = 0 THEN {<<>>}
    ELSE LET shorter == SeqsUpTo(S, n - 1)
         IN  shorter \cup {Append(s, x) : s \in {q \in shorter : Len(q) = n - 1}, x \in S}

OptionLists == SeqsUpTo(CapArgs, MaxOpts)

VARIABLES
    phase,      \* "new" before New returns, "ready" after; "panic" when an option
                \* panicked, "crash" when a method panicked
    opts,       \* the capacities of the WithCapacity options New is called with
    capacity,   \* stack.capacity
    items,      \* stack.items; the top is the last element
    mu,         \* stack.mu: the writer holding it (0: none) and the readers holding it
    pc,         \* pc[t]: the statement thread t is at
    arg,        \* arg[t]: the val of the Push thread t is in
    sz,         \* sz[t]: the len(s.items) thread t has read (Pop's and Peek's local sz)
    hist        \* results produced so far: [op, arg, val, err]

vars == <<phase, opts, capacity, items, mu, pc, arg, sz, hist>>

\* ---- config.go ----

\* The closure WithCapacity(cap) applied to a stack with capacity c:
\* the new capacity, and whether the closure panics.
\* Faulty variant: a guard that rejects every negative capacity.
WithCapacityPanicsNegative(cap) == cap < 0

WithCapacityPanics(cap) == cap < UnlimitedCapacity

WithCapacity(c, cap) == IF WithCapacityPanics(cap) THEN c ELSE cap

\* Faulty variant: only the first option is applied.
ApplyOptionsFirst(c, os) ==
    IF os = <<>> \/ Head(os) < UnlimitedCapacity THEN c ELSE Head(os)

\* "for _, opt := range opts { opt(s) }" starting from capacity c.
RECURSIVE ApplyOptions(_, _)
ApplyOptions(c, os) ==
    IF os = <<>> THEN c
    ELSE IF WithCapacityPanics(Head(os)) THEN c
    ELSE ApplyOptions(WithCapacity(c, Head(os)), Tail(os))

RECURSIVE OptionsPanic(_)
OptionsPanic(os) ==
    IF os = <<>> THEN FALSE
    ELSE WithCapacityPanics(Head(os)) \/ OptionsPanic(Tail(os))

\* ---- stack.go: newStack ----
newStackCapacity(os) == ApplyOptions(UnlimitedCapacity, os)

\* Faulty variant: "make([]T, s.capacity)", a slice of zero values as long as
\* the capacity.
newStackItemsPrealloc(c) == IF c > 0 THEN [i \in 1..c |-> Zero] ELSE <<>>

\* "s.items = make([]T, 0)", c being the capacity the options have set
newStackItems(c) == <<>>

New ==
    /\ phase = "new"
    /\ IF OptionsPanic(opts)
       THEN /\ phase' = "panic"
            /\ UNCHANGED <<capacity, items>>
       ELSE /\ phase' = "ready"
            /\ capacity' = newStackCapacity(opts)
            /\ items' = newStackItems(newStackCapacity(opts))
    /\ UNCHANGED <<opts, mu, pc, arg, sz, hist>>

\* ---- sync.RWMutex as used by stack.go ----
\* Faulty variants of Lock's wait condition: a Lock that waits for nobody, and
\* a Lock that waits for the readers but not for another writer.
CanLockAlways == TRUE

CanLockReadersOnly == mu.readers = {}

\* Faulty variant of RLock's wait condition: an RLock that waits for nobody.
CanRLockAlways == TRUE

CanLock  == mu.writer = 0 /\ mu.readers = {}

CanRLock == mu.writer = 0

\* Faulty variant: a return path that does not release the lock.
UnlockMissing(t) == mu

Lock(t)    == [mu EXCEPT !.writer = t]
Unlock(t)  == [mu EXCEPT !.writer = IF mu.writer = t THEN 0 ELSE mu.writer]
RLock(t)   == [mu EXCEPT !.readers = @ \cup {t}]
RUnlock(t) == [mu EXCEPT !.readers = @ \ {t}]

\* ---- the calls ----
Returned == {"idle", "push_unlock", "pop_unlock", "size_runlock", "peek_runlock"}

\* calls whose result is not produced yet
Pending == {t \in Threads : pc[t] \notin Returned}

CanCall(t) ==
    /\ phase = "ready"
    /\ pc[t] = "idle"
    /\ Len(hist) + Cardinality(Pending) < MaxOps

Record(op, a, v, e) == Append(hist, [op |-> op, arg |-> a, val |-> v, err |-> e])

\* ---- stack.go: Push ----
\* "s.capacity >= 0 && len(s.items)+1 > s.capacity", n being len(s.items)
\* Faulty variant: "len(s.items) > s.capacity", one item too late.
PushFullOffByOne(c, n) == c >= 0 /\ n > c

\* Faulty variant: "len(s.items)+2 > s.capacity", one item too early.
PushFullEarly(c, n) == c >= 0 /\ n + 2 > c

\* Faulty variant: the capacity test without "s.capacity >= 0".
PushFullNoSentinel(c, n) == n + 1 > c

PushFull(c, n) == c >= 0 /\ n + 1 > c

\* the error Push returns
PushErr(c, n) == IF PushFull(c, n) THEN ErrOverflow ELSE ErrNil

\* Faulty variants: the append done before the capacity test, and an append
\* that writes over the top instead of growing the slice.
PushItemsAlways(c, n, its, val) == Append(its, val)

PushItemsOverwrite(c, n, its, val) ==
    IF n + 1 > c /\ c >= 0 THEN its
    ELSE IF its = <<>> THEN <<val>>
    ELSE [its EXCEPT ![Len(its)] = val]

\* s.items when Push returns
PushItems(c, n, its, val) == IF PushFull(c, n) THEN its ELSE Append(its, val)

\* Faulty variant: a full stack that raises its limit.
PushCapacityGrow(c, n) == IF c >= 0 /\ n + 1 > c THEN c + 1 ELSE c

\* s.capacity when Push returns: Push assigns nothing to it
PushCapacity(c, n) == c

PushCall(t, v) ==
    /\ CanCall(t)
    /\ pc' = [pc EXCEPT ![t] = "push_lock"]
    /\ arg' = [arg EXCEPT ![t] = v]
    /\ UNCHANGED <<phase, opts, capacity, items, mu, sz, hist>>

PushLock(t) ==
    /\ pc[t] = "push_lock"
    /\ CanLock
    /\ mu' = Lock(t)
    /\ pc' = [pc EXCEPT ![t] = "push_len"]
    /\ UNCHANGED <<phase, opts, capacity, items, arg, sz, hist>>

\* the read of len(s.items) in the capacity test
PushLen(t) ==
    /\ pc[t] = "push_len"
    /\ sz' = [sz EXCEPT ![t] = Len(items)]
    /\ pc' = [pc EXCEPT ![t] = "push_body"]
    /\ UNCHANGED <<phase, opts, capacity, items, mu, arg, hist>>

\* the capacity test, and the append or the return of ErrOverflow
PushBody(t) ==
    /\ pc[t] = "push_body"
    /\ items' = PushItems(capacity, sz[t], items, arg[t])
    /\ capacity' = PushCapacity(capacity, sz[t])
    /\ hist' = Record("Push", arg[t], Zero, PushErr(capacity, sz[t]))
    /\ pc' = [pc EXCEPT ![t] = "push_unlock"]
    /\ UNCHANGED <<phase, opts, mu, arg, sz>>

\* the deferred s.mu.Unlock() and the return
PushUnlock(t) ==
    /\ pc[t] = "push_unlock"
    /\ mu' = Unlock(t)
    /\ pc' = [pc EXCEPT ![t] = "idle"]
    /\ arg' = [arg EXCEPT ![t] = Zero]
    /\ sz' = [sz EXCEPT ![t] = 0]
    /\ UNCHANGED <<phase, opts, capacity, items, hist>>

\* ---- stack.go: Pop ----
\* "s.items[idx]" panics when idx is not an index of s.items.
IndexInRange(its, idx) == 0 <= idx /\ idx < Len(its)

\* s.items[idx], with Go's indices from 0
At(its, idx) == its[idx + 1]

\* Faulty variant: "if sz < 0".
PopEmptyNegative(n) == n < 0

\* "if sz == 0"
PopEmpty(n) == n = 0

\* Faulty variant: Pop returning s.items[0].
PopResultBottom(its, n) == IF n = 0 THEN Zero ELSE At(its, 0)

\* the value and the error Pop returns, n being the local sz
PopResult(its, n) == IF PopEmpty(n) THEN Zero ELSE At(its, n - 1)

PopErr(n) == IF PopEmpty(n) THEN ErrUnderflow ELSE ErrNil

\* Faulty variant: Pop removing the bottom, "s.items = s.items[1:]".
PopItemsDropBottom(its, n) == IF n = 0 THEN its ELSE Tail(its)

\* Faulty variant: Pop without "s.items = s.items[:idx]".
PopItemsKeep(its, n) == its

\* s.items when Pop returns: "s.items = s.items[:idx]"
PopItems(its, n) == IF PopEmpty(n) THEN its ELSE SubSeq(its, 1, n - 1)

PopCall(t) ==
    /\ CanCall(t)
    /\ pc' = [pc EXCEPT ![t] = "pop_lock"]
    /\ UNCHANGED <<phase, opts, capacity, items, mu, arg, sz, hist>>

PopLock(t) ==
    /\ pc[t] = "pop_lock"
    /\ CanLock
    /\ mu' = Lock(t)
    /\ pc' = [pc EXCEPT ![t] = "pop_len"]
    /\ UNCHANGED <<phase, opts, capacity, items, arg, sz, hist>>

\* "sz := len(s.items)"
PopLen(t) ==
    /\ pc[t] = "pop_len"
    /\ sz' = [sz EXCEPT ![t] = Len(items)]
    /\ pc' = [pc EXCEPT ![t] = "pop_body"]
    /\ UNCHANGED <<phase, opts, capacity, items, mu, arg, hist>>

\* the emptiness test, and the removal of the top or the return of ErrUnderflow
PopBody(t) ==
    /\ pc[t] = "pop_body"
    /\ pc' = [pc EXCEPT ![t] = "pop_unlock"]
    /\ IF ~PopEmpty(sz[t]) /\ ~IndexInRange(items, sz[t] - 1)
       THEN /\ phase' = "crash"
            /\ UNCHANGED <<items, hist>>
       ELSE /\ hist' = Record("Pop", Zero, PopResult(items, sz[t]), PopErr(sz[t]))
            /\ items' = PopItems(items, sz[t])
            /\ phase' = phase
    /\ UNCHANGED <<opts, capacity, mu, arg, sz>>

\* the deferred s.mu.Unlock() and the return
PopUnlock(t) ==
    /\ pc[t] = "pop_unlock"
    /\ mu' = Unlock(t)
    /\ pc' = [pc EXCEPT ![t] = "idle"]
    /\ sz' = [sz EXCEPT ![t] = 0]
    /\ UNCHANGED <<phase, opts, capacity, items, arg, hist>>

\* ---- stack.go: Size ----
SizeResult(its) == Len(its)

SizeCall(t) ==
    /\ CanCall(t)
    /\ pc' = [pc EXCEPT ![t] = "size_rlock"]
    /\ UNCHANGED <<phase, opts, capacity, items, mu, arg, sz, hist>>

SizeRLock(t) ==
    /\ pc[t] = "size_rlock"
    /\ CanRLock
    /\ mu' = RLock(t)
    /\ pc' = [pc EXCEPT ![t] = "size_len"]
    /\ UNCHANGED <<phase, opts, capacity, items, arg, sz, hist>>

SizeLen(t) ==
    /\ pc[t] = "size_len"
    /\ hist' = Record("Size", Zero, SizeResult(items), ErrNil)
    /\ pc' = [pc EXCEPT ![t] = "size_runlock"]
    /\ UNCHANGED <<phase, opts, capacity, items, mu, arg, sz>>

SizeRUnlock(t) ==
    /\ pc[t] = "size_runlock"
    /\ mu' = RUnlock(t)
    /\ pc' = [pc EXCEPT ![t] = "idle"]
    /\ UNCHANGED <<phase, opts, capacity, items, arg, sz, hist>>

\* ---- stack.go: Peek ----
\* Faulty variant: "if sz < 0".
PeekEmptyNegative(n) == n < 0

\* "if sz == 0"
PeekEmpty(n) == n = 0

\* Faulty variant: Peek returning s.items[0].
PeekResultBottom(its, n) == IF n = 0 THEN Zero ELSE At(its, 0)

\* the value and the error Peek returns, n being the local sz
PeekResult(its, n) == IF PeekEmpty(n) THEN Zero ELSE At(its, n - 1)

PeekErr(n) == IF PeekEmpty(n) THEN ErrUnderflow ELSE ErrNil

\* Faulty variant: Peek removing the top as Pop does.
PeekItemsPop(its, n) == IF n = 0 THEN its ELSE SubSeq(its, 1, n - 1)

\* s.items when Peek returns: Peek assigns nothing
PeekItems(its, n) == its

PeekCall(t) ==
    /\ CanCall(t)
    /\ pc' = [pc EXCEPT ![t] = "peek_rlock"]
    /\ UNCHANGED <<phase, opts, capacity, items, mu, arg, sz, hist>>

PeekRLock(t) ==
    /\ pc[t] = "peek_rlock"
    /\ CanRLock
    /\ mu' = RLock(t)
    /\ pc' = [pc EXCEPT ![t] = "peek_len"]
    /\ UNCHANGED <<phase, opts, capacity, items, arg, sz, hist>>

\* "sz := len(s.items)"
PeekLen(t) ==
    /\ pc[t] = "peek_len"
    /\ sz' = [sz EXCEPT ![t] = Len(items)]
    /\ pc' = [pc EXCEPT ![t] = "peek_body"]
    /\ UNCHANGED <<phase, opts, capacity, items, mu, arg, hist>>

\* the emptiness test, and the read of the top or the return of ErrUnderflow
PeekBody(t) ==
    /\ pc[t] = "peek_body"
    /\ pc' = [pc EXCEPT ![t] = "peek_runlock"]
    /\ IF ~PeekEmpty(sz[t]) /\ ~IndexInRange(items, sz[t] - 1)
       THEN /\ phase' = "crash"
            /\ UNCHANGED <<items, hist>>
       ELSE /\ hist' = Record("Peek", Zero, PeekResult(items, sz[t]), PeekErr(sz[t]))
            /\ items' = PeekItems(items, sz[t])
            /\ phase' = phase
    /\ UNCHANGED <<opts, capacity, mu, arg, sz>>

\* the deferred s.mu.RUnlock() and the return
PeekRUnlock(t) ==
    /\ pc[t] = "peek_runlock"
    /\ mu' = RUnlock(t)
    /\ pc' = [pc EXCEPT ![t] = "idle"]
    /\ sz' = [sz EXCEPT ![t] = 0]
    /\ UNCHANGED <<phase, opts, capacity, items, arg, hist>>

\* The state before New is called with the options os.
InitWith(os) ==
    /\ phase = "new"
    /\ opts = os
    /\ capacity = UnlimitedCapacity
    /\ items = <<>>
    /\ mu = [writer |-> 0, readers |-> {}]
    /\ pc = [t \in Threads |-> "idle"]
    /\ arg = [t \in Threads |-> Zero]
    /\ sz = [t \in Threads |-> 0]
    /\ hist = <<>>

\* the methods as thread t runs them
Call(t) ==
    \/ \E v \in Values : PushCall(t, v)
    \/ PopCall(t)
    \/ SizeCall(t)
    \/ PeekCall(t)

\* the acquisition of the lock: the only statement that can wait
Acquire(t) == PushLock(t) \/ PopLock(t) \/ SizeRLock(t) \/ PeekRLock(t)

\* the statements between the acquisition and the return
Run(t) ==
    \/ PushLen(t) \/ PushBody(t) \/ PushUnlock(t)
    \/ PopLen(t) \/ PopBody(t) \/ PopUnlock(t)
    \/ SizeLen(t) \/ SizeRUnlock(t)
    \/ PeekLen(t) \/ PeekBody(t) \/ PeekRUnlock(t)

Step(t) == Acquire(t) \/ Run(t)

\* Goroutines sharing a stack built with at most one option.
Init == \E os \in {o \in OptionLists : Len(o) <= 1} : InitWith(os)

Next ==
    \/ New
    \/ \E t \in Threads, v \in Values : PushCall(t, v)
    \/ \E t \in Threads : PushLock(t)
    \/ \E t \in Threads : PushLen(t)
    \/ \E t \in Threads : PushBody(t)
    \/ \E t \in Threads : PushUnlock(t)
    \/ \E t \in Threads : PopCall(t)
    \/ \E t \in Threads : PopLock(t)
    \/ \E t \in Threads : PopLen(t)
    \/ \E t \in Threads : PopBody(t)
    \/ \E t \in Threads : PopUnlock(t)
    \/ \E t \in Threads : SizeCall(t)
    \/ \E t \in Threads : SizeRLock(t)
    \/ \E t \in Threads : SizeLen(t)
    \/ \E t \in Threads : SizeRUnlock(t)
    \/ \E t \in Threads : PeekCall(t)
    \/ \E t \in Threads : PeekRLock(t)
    \/ \E t \in Threads : PeekLen(t)
    \/ \E t \in Threads : PeekBody(t)
    \/ \E t \in Threads : PeekRUnlock(t)

Spec == Init /\ [][Next]_vars

\* The same under the scheduling of the Go runtime and a fair lock: a
\* goroutine that can run does, and one that waits for a lock that keeps
\* becoming free gets it.
Fairness ==
    \A t \in Threads : WF_vars(Run(t)) /\ SF_vars(Acquire(t))

\* What is pushed has no part in who waits for whom: the calls with one
\* pushed value.
CallOne(t) == PushCall(t, 1) \/ PopCall(t) \/ SizeCall(t) \/ PeekCall(t)

NextFair == New \/ \E t \in Threads : CallOne(t) \/ Step(t)

\* a stack without a limit, and one that a single item fills
InitFair == InitWith(<<>>) \/ InitWith(<<1>>)

FairSpec == InitFair /\ [][NextFair]_vars /\ Fairness

\* One goroutine using a stack built with any list of options.
InitOptions == \E os \in OptionLists : InitWith(os)

NextOptions == New \/ Call(1) \/ Step(1)

SpecOptions == InitOptions /\ [][NextOptions]_vars

\* ======================================================================
\* Properties
\* ======================================================================

\* ---- reading the log of results ----
IsPush(e)   == e.op = "Push"
IsPop(e)    == e.op = "Pop"
IsRead(e)   == e.op \in {"Peek", "Size"}
IsPushOk(e) == e.op = "Push" /\ e.err = ErrNil
IsPopOk(e)  == e.op = "Pop" /\ e.err = ErrNil

Count(h, P(_)) == Cardinality({i \in DOMAIN h : P(h[i])})

Occurrences(q, v) == Cardinality({i \in DOMAIN q : q[i] = v})

Prefix(h, n) == SubSeq(h, 1, n)
Suffix(h, n) == SubSeq(h, n + 1, Len(h))

\* successful pushes minus successful pops
Net(h) == Count(h, IsPushOk) - Count(h, IsPopOk)

\* The values a reference LIFO stack holds after the successful pushes and
\* pops of h, in order; it looks at which calls succeeded and at the pushed
\* values only, never at what Pop or Peek returned.
RECURSIVE Replay(_)
Replay(h) ==
    IF h = <<>> THEN <<>>
    ELSE LET r == Replay(Prefix(h, Len(h) - 1))
             e == h[Len(h)]
         IN  IF IsPushOk(e) THEN Append(r, e.arg)
             ELSE IF IsPopOk(e) /\ r # <<>> THEN Prefix(r, Len(r) - 1)
             ELSE r

\* the step appends a result of method op to the log
Produces(op) == Len(hist') = Len(hist) + 1 /\ hist'[Len(hist')].op = op

AllIdle == \A t \in Threads : pc[t] = "idle"

\* ---- C1 ----
\* C1: LIFO order.  When the log, with the reads and the rejected pushes left
\* out, is n successful pushes of v1..vn followed by at most n pops, the k-th
\* pop succeeded and returned v(n-k+1), and after the n-th pop the stack is
\* empty.
C1_LifoOrder ==
    LET eff == SelectSeq(hist, LAMBDA e : IsPushOk(e) \/ IsPop(e))
        n   == Count(eff, IsPush)
    IN  ((\A i \in 1..n : IsPush(eff[i])) /\ Len(eff) <= 2 * n)
        => /\ \A k \in 1..(Len(eff) - n) :
                /\ eff[n + k].err = ErrNil
                /\ eff[n + k].val = eff[n - k + 1].arg
           /\ (Len(eff) = 2 * n => items = <<>>)

\* two different values pushed, then both popped
C1_Witness ==
    /\ Len(hist) = 4
    /\ IsPushOk(hist[1]) /\ IsPushOk(hist[2]) /\ hist[1].arg # hist[2].arg
    /\ IsPopOk(hist[3]) /\ IsPopOk(hist[4])
    /\ AllIdle

\* ---- C2 ----
\* C2: capacity bound.  With a capacity c >= 0 the stack never holds more than
\* c items, and a Push whose body runs when the stack holds exactly c items
\* returns ErrOverflow and leaves the items as they are.
C2_CapacityBound ==
    /\ [](capacity >= 0 => Len(items) <= capacity)
    /\ [][\A t \in Threads :
            (pc[t] = "push_body" /\ pc'[t] # "push_body"
                /\ capacity >= 0 /\ Len(items) = capacity)
            => /\ hist' = Append(hist, [op |-> "Push", arg |-> arg[t],
                                        val |-> Zero, err |-> ErrOverflow])
               /\ items' = items]_vars

\* a full stack of capacity 1 has rejected a Push while another Push waits
C2_Witness ==
    /\ capacity = 1
    /\ Len(items) = capacity
    /\ hist # <<>>
    /\ hist[Len(hist)].op = "Push" /\ hist[Len(hist)].err = ErrOverflow
    /\ \E t, u \in Threads : pc[t] = "push_unlock" /\ pc[u] = "push_lock"

\* ---- C3 ----
\* C3: size accounting.  The number of stored items, which is what Size
\* returns, is the number of pushes that returned nil minus the number of pops
\* that returned nil, and is never negative; every result Size has returned
\* was that difference over the calls before it.
C3_SizeAccounting ==
    /\ SizeResult(items) = Net(hist)
    /\ SizeResult(items) >= 0
    /\ \A i \in DOMAIN hist :
          hist[i].op = "Size"
          => /\ hist[i].val = Net(Prefix(hist, i - 1))
             /\ hist[i].val >= 0
             /\ hist[i].err = ErrNil

\* two pushes, a pop, and then Size returned 1
C3_Witness ==
    /\ Len(hist) = 4
    /\ hist[4].op = "Size" /\ hist[4].val = 1
    /\ Count(hist, IsPushOk) = 2 /\ Count(hist, IsPopOk) = 1
    /\ AllIdle

\* ---- C4 ----
\* C4: concurrent pushes are neither lost nor duplicated.  On an unlimited
\* stack on which no Pop has run, every Push has succeeded, the stack holds as
\* many items as there were pushes, and each value is stored once per push of
\* it.
C4_ConcurrentPushes ==
    (capacity = UnlimitedCapacity /\ Count(hist, IsPop) = 0)
    => /\ \A i \in DOMAIN hist : IsPush(hist[i]) => hist[i].err = ErrNil
       /\ SizeResult(items) = Count(hist, IsPush)
       /\ \A v \in Values :
             Occurrences(items, v)
                 = Cardinality({i \in DOMAIN hist : IsPush(hist[i]) /\ hist[i].arg = v})

\* three pushes are stored and the fourth waits for the lock its
\* predecessor still holds
C4_Witness ==
    /\ capacity = UnlimitedCapacity
    /\ Len(hist) = 3 /\ Count(hist, IsPushOk) = 3
    /\ Len(items) = 3
    /\ \E t, u \in Threads : pc[t] = "push_unlock" /\ pc[u] = "push_lock"

\* ---- C5 ----
\* C5: no lost pop and no spurious underflow.  When the stack holds N items
\* (the reference content after a prefix of the log) and the calls after that
\* prefix include no Push and at most N pops, no Pop panicked, every one of
\* those pops succeeded, N minus their number items remain, and every value
\* held then is either still stored or was returned by exactly one Pop.
C5_ConcurrentPops ==
    \A k \in 0..Len(hist) :
        LET before == Replay(Prefix(hist, k))
            after  == Suffix(hist, k)
            pops   == Count(after, IsPop)
        IN  (Count(after, IsPush) = 0 /\ pops >= 1 /\ pops <= Len(before))
            => /\ phase # "crash"
               /\ \A i \in DOMAIN after : IsPop(after[i]) => after[i].err = ErrNil
               /\ Len(items) = Len(before) - pops
               /\ \A v \in Values :
                     Occurrences(before, v)
                         = Occurrences(items, v)
                             + Cardinality({i \in DOMAIN after :
                                              IsPop(after[i]) /\ after[i].val = v})

\* two items, two concurrent pops: both succeeded, the second still holds
\* the lock, and the stack is empty
C5_Witness ==
    /\ Len(hist) = 4
    /\ IsPushOk(hist[1]) /\ IsPushOk(hist[2])
    /\ IsPopOk(hist[3]) /\ IsPopOk(hist[4])
    /\ items = <<>>
    /\ \E t \in Threads : pc[t] = "pop_unlock"

\* ---- C6 ----
\* C6: empty-stack errors.  A Pop or Peek whose body runs when the stack holds
\* no item returns ErrUnderflow with the zero value and changes neither the
\* items nor the capacity.
C6_EmptyStackErrors ==
    [][\A t \in Threads :
          (pc[t] \in {"pop_body", "peek_body"} /\ pc'[t] # pc[t] /\ Len(items) = 0)
          => /\ hist' = Append(hist, [op  |-> IF pc[t] = "pop_body" THEN "Pop" ELSE "Peek",
                                      arg |-> Zero, val |-> Zero, err |-> ErrUnderflow])
             /\ items' = items
             /\ capacity' = capacity]_vars

\* both a Pop and a Peek have returned ErrUnderflow
C6_Witness ==
    /\ items = <<>>
    /\ \E i, j \in DOMAIN hist :
          /\ hist[i].op = "Pop" /\ hist[i].err = ErrUnderflow
          /\ hist[j].op = "Peek" /\ hist[j].err = ErrUnderflow

\* ---- C7 ----
\* C7: a rejected Push has no effect.  The step in which Push produces
\* ErrOverflow leaves the items and the capacity as they are, and every value
\* a Pop or Peek returns with a nil error is the value of an earlier Push that
\* returned nil.
C7_RejectedPush ==
    /\ [][(Produces("Push") /\ hist'[Len(hist')].err = ErrOverflow)
            => (items' = items /\ capacity' = capacity)]_vars
    /\ [](\A i \in DOMAIN hist :
            (hist[i].op \in {"Pop", "Peek"} /\ hist[i].err = ErrNil)
            => \E j \in 1..(i - 1) : IsPushOk(hist[j]) /\ hist[j].arg = hist[i].val)

\* a Push was rejected, and a later Pop returned another value
C7_Witness ==
    \E i, j \in DOMAIN hist :
        /\ i < j
        /\ IsPush(hist[i]) /\ hist[i].err = ErrOverflow
        /\ IsPopOk(hist[j]) /\ hist[j].val # hist[i].arg

\* ---- C8 ----
\* C8: Peek is idempotent and mutates nothing.  Two results of Peek with only
\* Peek and Size results between them are the same value and error, two
\* results of Size around a Peek likewise, and no step of a Peek changes the
\* items or the capacity.
C8_PeekIdempotent ==
    /\ [](\A i, j \in DOMAIN hist :
            (/\ i < j
             /\ hist[i].op = hist[j].op
             /\ \A k \in i..j : IsRead(hist[k])
             /\ \E k \in i..j : hist[k].op = "Peek")
            => (hist[i].val = hist[j].val /\ hist[i].err = hist[j].err))
    /\ [][\A t \in Threads :
            (pc[t] \in {"peek_rlock", "peek_len", "peek_body", "peek_runlock"}
                /\ pc'[t] # pc[t])
            => (items' = items /\ capacity' = capacity)]_vars

\* a push, two Peeks returning its value, and Size returning 1
C8_Witness ==
    /\ Len(hist) = 4
    /\ IsPushOk(hist[1])
    /\ hist[2].op = "Peek" /\ hist[2].err = ErrNil /\ hist[2].val = hist[1].arg
    /\ hist[3].op = "Peek" /\ hist[3].err = ErrNil
    /\ hist[4].op = "Size" /\ hist[4].val = 1

\* ---- C9 ----
\* C9: Peek returns the top.  A Peek on a non-empty stack succeeds and returns
\* the most recently pushed value not yet popped, and a Pop that comes right
\* after a successful Peek succeeds and returns the same value.
C9_PeekTop ==
    \A i \in DOMAIN hist :
        hist[i].op = "Peek"
        => LET ref == Replay(Prefix(hist, i - 1))
           IN  /\ ref # <<>> => (hist[i].err = ErrNil /\ hist[i].val = ref[Len(ref)])
               /\ (i < Len(hist) /\ IsPop(hist[i + 1]) /\ hist[i].err = ErrNil)
                  => (hist[i + 1].err = ErrNil /\ hist[i + 1].val = hist[i].val)

\* two different values pushed, Peek returned the second, and so did Pop
C9_Witness ==
    /\ Len(hist) = 4
    /\ IsPushOk(hist[1]) /\ IsPushOk(hist[2]) /\ hist[1].arg # hist[2].arg
    /\ hist[3].op = "Peek" /\ hist[3].val = hist[2].arg
    /\ IsPopOk(hist[4]) /\ hist[4].val = hist[2].arg

\* ---- C10 ----
\* C10: unlimited capacity.  On a stack whose capacity is UnlimitedCapacity
\* (no option, or WithCapacity(UnlimitedCapacity) last) no Push has returned
\* ErrOverflow.
C10_UnlimitedCapacity ==
    capacity = UnlimitedCapacity
    => \A i \in DOMAIN hist : IsPush(hist[i]) => hist[i].err # ErrOverflow

\* an unlimited stack holds more items than any capacity an option gave
C10_Witness ==
    /\ phase = "ready"
    /\ capacity = UnlimitedCapacity
    /\ Len(items) > MaxCap
    /\ Count(hist, IsPushOk) = Len(items)

\* ---- C11 ----
\* C11: option override.  A stack built from one or more WithCapacity options
\* has the capacity of the last one, and when that is c >= 0 and only pushes
\* have run, the first c of them succeeded and every later one returned
\* ErrOverflow.
C11_OptionOverride ==
    (phase = "ready" /\ opts # <<>>)
    => /\ capacity = opts[Len(opts)]
       /\ (opts[Len(opts)] >= 0 /\ \A i \in DOMAIN hist : IsPush(hist[i]))
          => \A i \in DOMAIN hist :
                hist[i].err = IF i <= opts[Len(opts)] THEN ErrNil ELSE ErrOverflow

\* WithCapacity(2) then WithCapacity(1): one push accepted, the next rejected
C11_Witness ==
    /\ phase = "ready"
    /\ opts = <<2, 1>>
    /\ Len(hist) = 2
    /\ IsPushOk(hist[1])
    /\ IsPush(hist[2]) /\ hist[2].err = ErrOverflow
    /\ AllIdle

\* ---- C12 ----
\* C12: invalid capacity.  New panics exactly when one of its options has a
\* capacity below UnlimitedCapacity; after the panic there is no stack to use:
\* no method has been called and no ErrOverflow or ErrUnderflow was returned.
C12_InvalidCapacity ==
    phase # "new"
    => /\ (phase = "panic") <=> (\E i \in DOMAIN opts : opts[i] < UnlimitedCapacity)
       /\ phase = "panic" => (hist = <<>> /\ items = <<>> /\ AllIdle)
       /\ phase = "panic" => \A t \in Threads : ~ENABLED Call(t)

\* a valid option followed by an invalid one has panicked
C12_Witness ==
    /\ phase = "panic"
    /\ Len(opts) = 2
    /\ opts[1] >= 0
    /\ opts[2] < UnlimitedCapacity

\* ---- C13 ----
\* C13: zero capacity.  A stack of capacity 0 never holds an item, every Push
\* on it has returned ErrOverflow and every Size has returned 0.
C13_ZeroCapacity ==
    capacity = 0
    => /\ items = <<>>
       /\ \A i \in DOMAIN hist :
             /\ IsPush(hist[i]) => hist[i].err = ErrOverflow
             /\ hist[i].op = "Size" => hist[i].val = 0

\* on a stack of capacity 0 two pushes were rejected and Size returned 0
C13_Witness ==
    /\ capacity = 0
    /\ Cardinality({i \in DOMAIN hist : IsPush(hist[i]) /\ hist[i].err = ErrOverflow}) >= 2
    /\ \E i \in DOMAIN hist : hist[i].op = "Size" /\ hist[i].val = 0

\* ---- C14 ----
\* A sequential LIFO stack of capacity c: the stack, the value and the error
\* after one call on the stack st.
RefPush(c, st, v) ==
    IF c >= 0 /\ Len(st) >= c
    THEN [st |-> st, val |-> Zero, err |-> ErrOverflow]
    ELSE [st |-> Append(st, v), val |-> Zero, err |-> ErrNil]

RefPop(st) ==
    IF st = <<>>
    THEN [st |-> st, val |-> Zero, err |-> ErrUnderflow]
    ELSE [st |-> SubSeq(st, 1, Len(st) - 1), val |-> st[Len(st)], err |-> ErrNil]

RefPeek(st) ==
    IF st = <<>>
    THEN [st |-> st, val |-> Zero, err |-> ErrUnderflow]
    ELSE [st |-> st, val |-> st[Len(st)], err |-> ErrNil]

RefSize(st) == [st |-> st, val |-> Len(st), err |-> ErrNil]

RefApply(c, st, e) ==
    CASE e.op = "Push" -> RefPush(c, st, e.arg)
      [] e.op = "Pop"  -> RefPop(st)
      [] e.op = "Peek" -> RefPeek(st)
      [] e.op = "Size" -> RefSize(st)

\* The calls of h run one after the other on the sequential stack: whether
\* every logged value and error is the one the sequential stack gives, and the
\* stack at the end.
RECURSIVE RefRun(_, _)
RefRun(c, h) ==
    IF h = <<>> THEN [ok |-> TRUE, st |-> <<>>]
    ELSE LET r == RefRun(c, Prefix(h, Len(h) - 1))
             e == h[Len(h)]
             o == RefApply(c, r.st, e)
         IN  [ok |-> r.ok /\ e.val = o.val /\ e.err = o.err, st |-> o.st]

\* the position at which a method has its effect, and the one after it
BodyOf(op) ==
    CASE op = "Push" -> "push_body"
      [] op = "Pop"  -> "pop_body"
      [] op = "Peek" -> "peek_body"
      [] op = "Size" -> "size_len"

AfterOf(op) ==
    CASE op = "Push" -> "push_unlock"
      [] op = "Pop"  -> "pop_unlock"
      [] op = "Peek" -> "peek_runlock"
      [] op = "Size" -> "size_runlock"

\* C14: linearizability.  The logged results, in the order of the log, and the
\* stored items are those of the sequential stack running the same calls one
\* after the other; every call puts exactly one result in the log, in a single
\* step taken between its invocation and its return (so the order of the log
\* respects the order of calls that do not overlap), and the items change in
\* no other step.
C14_Linearizable ==
    /\ [](LET r == RefRun(capacity, hist) IN r.ok /\ r.st = items)
    /\ [][hist' # hist
            => /\ Len(hist') = Len(hist) + 1
               /\ Prefix(hist', Len(hist)) = hist
               /\ \E t \in Threads :
                     /\ pc[t] = BodyOf(hist'[Len(hist')].op)
                     /\ pc'[t] = AfterOf(hist'[Len(hist')].op)
                     /\ hist'[Len(hist')].arg = arg[t]]_vars
    /\ [][\A t \in Threads :
            (pc[t] \notin Returned /\ pc'[t] \in Returned) => hist' # hist]_vars
    /\ [][(items' # items /\ phase = "ready") => hist' # hist]_vars

\* a Push, a Peek and a Pop have taken effect; the Pop still holds the lock
\* while the other goroutine has called Size and waits for it
C14_Witness ==
    /\ Len(hist) = 3
    /\ IsPushOk(hist[1])
    /\ hist[2].op = "Peek" /\ hist[2].err = ErrNil
    /\ IsPopOk(hist[3])
    /\ \E t, u \in Threads : pc[t] = "pop_unlock" /\ pc[u] = "size_rlock"

\* ---- C15 ----
\* C15: strict LIFO under any interleaving.  The step in which a Pop succeeds
\* returns the last of the items and leaves the ones before it as they are;
\* the step in which a Push succeeds adds its value after the items and leaves
\* them as they are.
C15_StrictLifo ==
    /\ [][(Produces("Pop") /\ hist'[Len(hist')].err = ErrNil)
            => /\ items # <<>>
               /\ hist'[Len(hist')].val = items[Len(items)]
               /\ items' = SubSeq(items, 1, Len(items) - 1)]_vars
    /\ [][(Produces("Push") /\ hist'[Len(hist')].err = ErrNil)
            => items' = Append(items, hist'[Len(hist')].arg)]_vars

\* pushes interleaved with a pop: 1 and 2 pushed, 2 popped, then a value
\* pushed on top of the 1 that stayed
C15_Witness ==
    /\ Len(hist) = 4
    /\ IsPushOk(hist[1]) /\ hist[1].arg = 1
    /\ IsPushOk(hist[2]) /\ hist[2].arg = 2
    /\ IsPopOk(hist[3]) /\ hist[3].val = 2
    /\ IsPushOk(hist[4])
    /\ items = <<1, hist[4].arg>>

\* ---- C16 ----
\* the goroutines between Lock and Unlock, and between RLock and RUnlock
InWrite(t) ==
    pc[t] \in {"push_len", "push_body", "push_unlock", "pop_len", "pop_body", "pop_unlock"}

InRead(t) ==
    pc[t] \in {"size_len", "size_runlock", "peek_len", "peek_body", "peek_runlock"}

\* C16: lock discipline.  While a Push or Pop is in its critical section no
\* other call is in one; the lock records exactly the goroutines that are in
\* their critical sections.  (That Peek and Size can be in theirs together is
\* the witness.)
C16_LockDiscipline ==
    /\ \A t, u \in Threads :
          (t # u /\ InWrite(t)) => (~InWrite(u) /\ ~InRead(u))
    /\ \A t \in Threads : InWrite(t) <=> mu.writer = t
    /\ mu.readers = {t \in Threads : InRead(t)}

\* a Peek and a Size are in their critical sections at the same time
C16_Witness ==
    \E t, u \in Threads :
        /\ t # u
        /\ pc[t] \in {"peek_len", "peek_body"}
        /\ pc[u] = "size_len"
        /\ mu.readers = {t, u}

\* ---- C17 ----
\* C17: no deadlock, no indefinite blocking.  Under fair scheduling and a fair
\* lock every call that was made returns; when no call is in progress the lock
\* is free, whichever errors the calls returned; and a goroutine that holds
\* the lock can always take its next step, whether the stack is full, empty or
\* neither.
C17_NoBlocking ==
    /\ \A t \in Threads : (pc[t] # "idle") ~> (pc[t] = "idle")
    /\ [](AllIdle => (mu.writer = 0 /\ mu.readers = {}))
    /\ [](\A t \in Threads : (InWrite(t) \/ InRead(t)) => ENABLED Run(t))

\* calls have returned nil, ErrOverflow and ErrUnderflow, and no call is in
\* progress
C17_Witness ==
    /\ AllIdle
    /\ mu.writer = 0 /\ mu.readers = {}
    /\ \E i \in DOMAIN hist : IsPushOk(hist[i])
    /\ \E i \in DOMAIN hist : hist[i].err = ErrOverflow
    /\ \E i \in DOMAIN hist : hist[i].err = ErrUnderflow

\* ---- C18 ----
\* C18: overflow and underflow are never fatal.  No method panics: a Pop or
\* Peek about to index the items holds their current length in sz, so it
\* indexes at length-1 and only when the length is positive; the only panic is
\* that of an invalid option, before any call.
C18_NeverFatal ==
    /\ phase # "crash"
    /\ \A t \in Threads :
          pc[t] \in {"pop_body", "peek_body"}
          => /\ sz[t] = Len(items)
             /\ (sz[t] # 0 => IndexInRange(items, sz[t] - 1))
    /\ phase = "panic" => hist = <<>>

\* a Push was rejected, a Pop and a Peek found the stack empty, and the stack
\* is still in use
C18_Witness ==
    /\ phase = "ready"
    /\ \E i \in DOMAIN hist : IsPush(hist[i]) /\ hist[i].err = ErrOverflow
    /\ \E i \in DOMAIN hist : IsPop(hist[i]) /\ hist[i].err = ErrUnderflow
    /\ \E i \in DOMAIN hist : hist[i].op = "Peek" /\ hist[i].err = ErrUnderflow
    /\ \E t \in Threads : pc[t] = "pop_body"

\* ---- C19 ----
\* C19: no spurious overflow.  On a stack of capacity c >= 0 a Push whose body
\* runs when fewer than c items are stored succeeds and stores its value; and
\* a Push that comes right after a rejected Push and a successful Pop
\* succeeds.
C19_NoSpuriousOverflow ==
    /\ [][\A t \in Threads :
            (pc[t] = "push_body" /\ pc'[t] # "push_body"
                /\ capacity >= 0 /\ Len(items) < capacity)
            => /\ hist' = Append(hist, [op |-> "Push", arg |-> arg[t],
                                        val |-> Zero, err |-> ErrNil])
               /\ items' = Append(items, arg[t])]_vars
    /\ [](\A i \in DOMAIN hist :
            (/\ i + 2 <= Len(hist)
             /\ IsPush(hist[i]) /\ hist[i].err = ErrOverflow
             /\ IsPopOk(hist[i + 1])
             /\ IsPush(hist[i + 2]))
            => hist[i + 2].err = ErrNil)

\* a full stack rejected a Push, a Pop made room, and the next Push succeeded
C19_Witness ==
    /\ capacity >= 1
    /\ Len(hist) = 4
    /\ IsPushOk(hist[1])
    /\ IsPush(hist[2]) /\ hist[2].err = ErrOverflow
    /\ IsPopOk(hist[3])
    /\ IsPushOk(hist[4])
    /\ Len(items) = capacity

\* ---- C20 ----
\* C20: the capacity is immutable after construction.  Once New has returned
\* no step changes the capacity, and it is at all times the one New computed
\* from its options.
C20_CapacityImmutable ==
    /\ [][phase # "new" => capacity' = capacity]_vars
    /\ [](phase = "ready" => capacity = newStackCapacity(opts))

\* successful and rejected calls have run on a stack of capacity 1
C20_Witness ==
    /\ phase = "ready"
    /\ capacity = 1
    /\ Len(hist) = 4
    /\ \E i \in DOMAIN hist : IsPushOk(hist[i])
    /\ \E i \in DOMAIN hist : IsPush(hist[i]) /\ hist[i].err = ErrOverflow
    /\ \E i \in DOMAIN hist : IsPopOk(hist[i])
    /\ \E i \in DOMAIN hist : hist[i].op \in {"Peek", "Size"}

\* ---- C21 ----
\* C21: a newly constructed stack is empty.  Whatever valid options New was
\* given, the stack it returns holds no item; and on a stack on which no Push
\* has succeeded yet, every Size has returned 0 and every Pop and Peek has
\* returned ErrUnderflow with the zero value.
C21_NewIsEmpty ==
    /\ [][(phase = "new" /\ phase' = "ready") => (items' = <<>> /\ hist' = <<>>)]_vars
    /\ [](phase = "ready"
            => \A i \in DOMAIN hist :
                  Count(Prefix(hist, i - 1), IsPushOk) = 0
                  => /\ hist[i].op = "Size" => hist[i].val = 0
                     /\ hist[i].op \in {"Pop", "Peek"}
                        => (hist[i].err = ErrUnderflow /\ hist[i].val = Zero))

\* a stack built from two options with a positive capacity: Size returned 0,
\* and the first Pop and the first Peek returned ErrUnderflow
C21_Witness ==
    /\ phase = "ready"
    /\ Len(opts) = 2
    /\ capacity >= 1
    /\ Len(hist) = 3
    /\ hist[1].op = "Size" /\ hist[1].val = 0
    /\ hist[2].op = "Pop" /\ hist[2].err = ErrUnderflow
    /\ hist[3].op = "Peek" /\ hist[3].err = ErrUnderflow
    /\ items = <<>>
====
